---- MODULE Spec2Model ----
(***************************************************************************)
(* Model of reddit_image_scraper.py: the listing fetch loop, the post      *)
(* parser and filter, the filename / dedup-index functions and the         *)
(* thread-pool download phase.                                             *)
(*                                                                         *)
(* A Python str is a sequence of one-character strings.  A missing dict    *)
(* key is the value "absent" (for the three flags) or a has_* boolean.     *)
(***************************************************************************)
EXTENDS Integers, Sequences, FiniteSets, TLC

(***************************************************************************)
(* Strings                                                                 *)
(***************************************************************************)

Min(a, b) == IF a <= b THEN a ELSE b

\* s[:n]
Take(s, n) == SubSeq(s, 1, Min(n, Len(s)))

\* s[n:]  (n is 0-based, as in Python)
Drop(s, n) == SubSeq(s, n + 1, Len(s))

StartsWith(s, p) == Len(p) <= Len(s) /\ SubSeq(s, 1, Len(p)) = p

EndsWith(s, p) ==
    Len(p) <= Len(s) /\ SubSeq(s, Len(s) - Len(p) + 1, Len(s)) = p

\* sub in s
Contains(s, sub) ==
    \E i \in 1..(Len(s) - Len(sub) + 1) : SubSeq(s, i, i + Len(sub) - 1) = sub

\* s.find(c) for a one-character c, 1-based; 0 when c does not occur
Find(s, c) ==
    IF \E i \in 1..Len(s) : s[i] = c
    THEN CHOOSE i \in 1..Len(s) : s[i] = c /\ \A j \in 1..(i - 1) : s[j] # c
    ELSE 0

\* s.rfind(c), 1-based; 0 when c does not occur
RFind(s, c) ==
    IF \E i \in 1..Len(s) : s[i] = c
    THEN CHOOSE i \in 1..Len(s) : s[i] = c /\ \A j \in (i + 1)..Len(s) : s[j] # c
    ELSE 0

\* first index of s holding a character of the set cs; Len(s) + 1 when none
FindAny(s, cs) ==
    IF \E i \in 1..Len(s) : s[i] \in cs
    THEN CHOOSE i \in 1..Len(s) : s[i] \in cs /\ \A j \in 1..(i - 1) : s[j] \notin cs
    ELSE Len(s) + 1

UpperCase == [j |-> "J", p |-> "P", g |-> "G", n |-> "N"]

\* str.lower(), on the letters the model's URLs use
LowerChar(c) ==
    IF \E k \in DOMAIN UpperCase : UpperCase[k] = c
    THEN CHOOSE k \in DOMAIN UpperCase : UpperCase[k] = c
    ELSE c

Lower(s) == [i \in 1..Len(s) |-> LowerChar(s[i])]

Whitespace == {" "}

\* str.strip()
Strip(s) ==
    IF \A i \in 1..Len(s) : s[i] \in Whitespace
    THEN <<>>
    ELSE LET a == CHOOSE i \in 1..Len(s) :
                      s[i] \notin Whitespace /\ \A j \in 1..(i - 1) : s[j] \in Whitespace
             b == CHOOSE i \in 1..Len(s) :
                      s[i] \notin Whitespace /\ \A j \in (i + 1)..Len(s) : s[j] \in Whitespace
         IN  SubSeq(s, a, b)

AMP_ENTITY == <<"&", "a", "m", "p", ";">>

RECURSIVE ReplaceAmp(_)
\* s.replace('&amp;', '&')
ReplaceAmp(s) ==
    IF s = <<>> THEN <<>>
    ELSE IF StartsWith(s, AMP_ENTITY)
         THEN <<"&">> \o ReplaceAmp(Drop(s, Len(AMP_ENTITY)))
         ELSE <<Head(s)>> \o ReplaceAmp(Tail(s))

(***************************************************************************)
(* URLs                                                                    *)
(***************************************************************************)

SCHEME_SEP == <<":", "/", "/">>

\* urllib.parse.urlparse(url): the netloc and path parts
UrlParse(url) ==
    LET c    == Find(url, ":")
        has  == c > 1 /\ StartsWith(Drop(url, c - 1), SCHEME_SEP)
                      /\ \A i \in 1..(c - 1) : url[i] \notin {"/", "?", "#", "."}
        rest == IF has THEN Drop(url, c + 2) ELSE url
        n    == IF has THEN FindAny(rest, {"/", "?", "#"}) ELSE 1
        tail == Drop(rest, n - 1)
        p    == FindAny(tail, {"?", "#"})
    IN  [netloc |-> SubSeq(rest, 1, n - 1), path |-> SubSeq(tail, 1, p - 1)]

EXT_JPG  == <<".", "j", "p", "g">>
EXT_JPEG == <<".", "j", "p", "e", "g">>
EXT_PNG  == <<".", "p", "n", "g">>
EXT_GIF  == <<".", "g", "i", "f">>
EXT_WEBP == <<".", "w", "e", "b", "p">>
EXT_MP4  == <<".", "m", "p", "4">>

IMAGE_EXTENSIONS == {EXT_JPG, EXT_JPEG, EXT_PNG, EXT_GIF, EXT_WEBP}

HTTPS == <<"h", "t", "t", "p", "s", ":", "/", "/">>
REDD_IT   == <<"r", "e", "d", "d", ".", "i", "t">>
IMGUR_COM == <<"i", "m", "g", "u", "r", ".", "c", "o", "m">>

IMAGE_DOMAINS ==
    { <<"i", ".">> \o REDD_IT,
      <<"i", ".">> \o IMGUR_COM,
      IMGUR_COM,
      <<"p", "r", "e", "v", "i", "e", "w", ".">> \o REDD_IT,
      <<"e", "x", "t", "e", "r", "n", "a", "l", "-", "p", "r", "e", "v", "i", "e", "w", ".">>
          \o REDD_IT }

_is_image_url(url) ==
    IF url = <<>> THEN FALSE
    ELSE LET parsed == UrlParse(url)
         IN  \/ parsed.netloc \in IMAGE_DOMAINS
             \/ \E ext \in IMAGE_EXTENSIONS : EndsWith(Lower(parsed.path), ext)

(***************************************************************************)
(* RedditPost                                                              *)
(***************************************************************************)

\* Python's None where a str is expected: no str equals it
None == <<"None">>

\* Python's None where a RedditPost is expected
NonePost == [none |-> TRUE]

\* a test for None alone, in the place of `not s`
IsNone(s) == s = None

\* not s, for a str or None
Falsy(s) == s = None \/ s = <<>>

ILLEGAL_CHARS == {"<", ">", ":", "\"", "/", "\\", "|", "?", "*"}

TITLE_MAX == 80

EXTENSIONS == <<EXT_JPG, EXT_JPEG, EXT_PNG, EXT_GIF, EXT_WEBP, EXT_MP4>>

\* RedditPost._get_extension
_get_extension(url) ==
    LET path == Lower(UrlParse(url).path)
        hits == {i \in 1..Len(EXTENSIONS) : EndsWith(path, EXTENSIONS[i])}
    IN  IF hits = {} THEN EXT_JPG
        ELSE EXTENSIONS[CHOOSE i \in hits : \A j \in hits : i <= j]

\* RedditPost.filename
filename(post) ==
    LET stripped   == SelectSeq(post.title, LAMBDA c : c \notin ILLEGAL_CHARS)
        safe_title == Strip(Take(stripped, TITLE_MAX))
    IN  post.id \o <<"_">> \o safe_title \o _get_extension(post.url)

(***************************************************************************)
(* The dedup index                                                         *)
(***************************************************************************)

\* a stem that drops every suffix of the name, not the last one only
StemWithoutSuffixes(name) ==
    LET i == Find(name, ".")
    IN  IF 1 < i THEN SubSeq(name, 1, i - 1) ELSE name

\* pathlib's PurePath.stem: the name without its last suffix
Stem(name) ==
    LET i == RFind(name, ".")
    IN  IF 1 < i /\ i < Len(name) THEN SubSeq(name, 1, i - 1) ELSE name

\* s.split('_')[0]
SplitFirst(s) ==
    LET i == Find(s, "_")
    IN  IF i = 0 THEN s ELSE SubSeq(s, 1, i - 1)

\* _load_existing_files with file.name in the place of file.stem
_load_existing_files_of_names(files) == {SplitFirst(f) : f \in files}

\* RedditScraper._load_existing_files: the identifiers added to self.downloaded
\* for the regular files of the output directory
_load_existing_files(files) == {SplitFirst(Stem(f)) : f \in files}

(***************************************************************************)
(* Resolving and filtering one listing entry                               *)
(***************************************************************************)

\* RedditScraper._extract_image_url, on the entry's data record
_extract_image_url(data) ==
    LET url == data.url
    IN  IF _is_image_url(url) THEN url
        ELSE IF data.is_gallery /\ data.media = "u"
             THEN ReplaceAmp(data.media_u)
        ELSE IF data.is_gallery /\ data.media = "no_u"
             THEN <<>>
        ELSE IF data.preview = "source" /\ ReplaceAmp(data.preview_url) # <<>>
             THEN ReplaceAmp(data.preview_url)
        ELSE IF Contains(url, IMGUR_COM) /\ ~_is_image_url(url)
                /\ ~Contains(url, <<"/", "a", "/">>)
                /\ ~Contains(url, <<"/", "g", "a", "l", "l", "e", "r", "y", "/">>)
             THEN url \o EXT_JPG
        ELSE None

\* data.get(flag, False): a missing flag lets the entry through
FlagOrFalse(v) == v = "true"

\* data.get(flag, True) for the three flags of an entry
FlagOrTrue(v) == v # "false"

\* the score test with its comparison turned round
AboveMinimum(value, minimum) == value > minimum

\* the test of a value against a minimum of the policy: value < minimum
BelowMinimum(value, minimum) == value < minimum

\* the width / height read from preview.images[0].source (0 when not there)
SourceDim(data, dim) == IF data.preview = "source" THEN dim ELSE 0

\* RedditScraper._parse_post
_parse_post(data, config) ==
    LET resolved  == _extract_image_url(data)
        score     == IF data.has_score THEN data.score ELSE 0
        width     == SourceDim(data, data.width)
        height    == SourceDim(data, data.height)
    IN  IF FlagOrTrue(data.is_self) THEN NonePost
        ELSE IF FlagOrTrue(data.is_video) THEN NonePost
        ELSE IF FlagOrTrue(data.over_18) /\ ~config.include_nsfw THEN NonePost
        ELSE IF Falsy(resolved) THEN NonePost
        ELSE IF BelowMinimum(score, config.min_score) THEN NonePost
        ELSE IF width # 0 /\ config.min_width # 0 /\ width < config.min_width
             THEN NonePost
        ELSE IF height # 0 /\ config.min_height # 0 /\ height < config.min_height
             THEN NonePost
        ELSE [id      |-> data.id,
              title   |-> data.title,
              url     |-> resolved,
              score   |-> score,
              is_nsfw |-> FlagOrTrue(data.over_18),
              width   |-> width,
              height  |-> height]

(***************************************************************************)
(* The listing request                                                     *)
(***************************************************************************)

\* Python's None where the URL of a listing request is expected
NoneUrl == [none |-> TRUE]

\* the most entries one listing request asks for
PAGE_MAX == 100

\* _build_url without its cap
_build_url_uncapped(cfg, cursor) == [limit |-> cfg.limit, after |-> cursor]

\* _build_url asking for the first page every time
_build_url_first_page(cfg, cursor) == [limit |-> Min(PAGE_MAX, cfg.limit), after |-> 0]

\* RedditScraper._build_url: the 'limit' and 'after' parameters of the query; after 0
\* is no 'after' parameter
_build_url(cfg, cursor) == [limit |-> Min(PAGE_MAX, cfg.limit), after |-> cursor]

(***************************************************************************)
(* Bounds and the inputs of the model                                      *)
(***************************************************************************)

\* the listing holds at most this many entries over all its pages
MaxEntries == 3

\* config.limit ranges over 0..MaxLimit
MaxLimit == 2

\* the upstream answers one listing URL with at most this many 429 in a row
Max429 == 2

\* config.max_workers ranges over 1..MaxWorkers
MaxWorkers == 2

I_REDD_IT == HTTPS \o <<"i", ".">> \o REDD_IT

\* ScraperConfig, with the defaults of its filter fields
Configs ==
    [limit         : 0..MaxLimit,
     skip_existing : BOOLEAN,
     include_nsfw  : {FALSE},
     min_score     : {0},
     min_width     : {0},
     min_height    : {0},
     max_workers   : 1..MaxWorkers]

\* a link post with a direct image URL
ImageEntry(id, url) ==
    [id |-> id, title |-> <<"t">>, is_self |-> "false", is_video |-> "false",
     over_18 |-> "false", url |-> url, is_gallery |-> FALSE, media |-> "none",
     media_u |-> <<>>, preview |-> "none", preview_url |-> <<>>,
     width |-> 0, height |-> 0, has_score |-> TRUE, score |-> 1]

EntryA == ImageEntry(<<"a">>, I_REDD_IT \o <<"/", "a">> \o EXT_PNG)
EntryB == ImageEntry(<<"b">>, I_REDD_IT \o <<"/", "b">> \o EXT_JPG)
SelfEntry == [ImageEntry(<<"c">>, <<>>) EXCEPT !.is_self = "true"]

\* the entries the upstream listing is made of
Pool == {EntryA, EntryB, SelfEntry}

DefaultConfig ==
    [limit |-> 1, skip_existing |-> TRUE, include_nsfw |-> FALSE, min_score |-> 0,
     min_width |-> 0, min_height |-> 0, max_workers |-> 1]

\* the output directory at startup: empty, or holding the file of a previous
\* download of EntryA
Dirs == {{}, {filename(_parse_post(EntryA, DefaultConfig))}}

\* the children a listing page can hold, for a listing that has n entries left
Children(n) == UNION {[1..k -> Pool] : k \in 0..n}

(***************************************************************************)
(* State                                                                   *)
(***************************************************************************)

VARIABLES
    pc,          \* where run() is: "start", "fetch", "download", "summary", "crashed"
    config,      \* self.config
    disk,        \* the names of the files in self.output_path
    disk0,       \* the names of the files there when the process started
    downloaded,  \* self.downloaded
    failed,      \* self.failed
    stats,       \* self.stats
    posts,       \* fetch_posts: posts
    after,       \* fetch_posts: after; 0 is None, k is the cursor that follows entry k
    fetched,     \* fetch_posts: fetched
    depth,       \* _make_request: the number of nested calls for the current URL
    resp,        \* what the last listing request ended with
    served,      \* the entries of the listing pages received so far, in listing order
    url,         \* fetch_posts: url, the listing request under way
    task,        \* download_all: the state of each post's future
    opened,      \* the futures whose task has opened its target file for writing
    counted,     \* the futures the as_completed loop has handled
    entry,       \* the input of a _parse_post call
    parsed,      \* the result of that call
    image_url    \* _parse_post: image_url, the result of _extract_image_url

vars == <<pc, config, disk, disk0, downloaded, failed, stats, posts, after, fetched,
          depth, resp, served, url, task, opened, counted, entry, parsed, image_url>>

fetchVars == <<posts, after, fetched, depth, resp, served, url>>
poolVars  == <<task, opened, counted>>
parseVars == <<entry, parsed, image_url>>

\* RedditScraper.__init__: the counters and sets of a new scraper
NewStats == [found |-> 0, downloaded |-> 0, skipped |-> 0, failed |-> 0]

\* RedditScraper.__init__: self.downloaded after construction
SeedIndex(cfg, files) == IF cfg.skip_existing THEN _load_existing_files(files) ELSE {}

Init ==
    /\ pc = "start"
    /\ config \in Configs
    /\ disk \in Dirs
    /\ disk0 = disk
    /\ downloaded = SeedIndex(config, disk)
    /\ failed = {}
    /\ stats = NewStats
    /\ posts = <<>>
    /\ after = 0
    /\ fetched = 0
    /\ depth = 0
    /\ resp = "none"
    /\ served = <<>>
    /\ url = NoneUrl
    /\ task = <<>>
    /\ opened = {}
    /\ counted = {}
    /\ entry = EntryA
    /\ parsed = NonePost
    /\ image_url = None

(***************************************************************************)
(* run(): the listing fetch, fetch_posts                                   *)
(***************************************************************************)

\* the for loop without its test of fetched against the limit
RECURSIVE ProcessChildrenUnlimited(_, _, _, _)
ProcessChildrenUnlimited(children, acc, cfg, index) ==
    IF children = <<>> THEN acc
    ELSE LET post == _parse_post(Head(children), cfg)
             rest == Tail(children)
         IN  IF post = NonePost THEN ProcessChildrenUnlimited(rest, acc, cfg, index)
             ELSE IF post.id \in index
                  THEN ProcessChildrenUnlimited(
                           rest, [acc EXCEPT !.skipped = @ + 1], cfg, index)
             ELSE ProcessChildrenUnlimited(
                      rest,
                      [acc EXCEPT !.posts = Append(@, post), !.fetched = @ + 1],
                      cfg, index)

\* the for loop counting a skipped post as fetched
RECURSIVE ProcessChildrenCountingSkips(_, _, _, _)
ProcessChildrenCountingSkips(children, acc, cfg, index) ==
    IF children = <<>> \/ acc.fetched >= cfg.limit THEN acc
    ELSE LET post == _parse_post(Head(children), cfg)
             rest == Tail(children)
         IN  IF post = NonePost THEN ProcessChildrenCountingSkips(rest, acc, cfg, index)
             ELSE IF post.id \in index
                  THEN ProcessChildrenCountingSkips(
                           rest,
                           [acc EXCEPT !.skipped = @ + 1, !.fetched = @ + 1],
                           cfg, index)
             ELSE ProcessChildrenCountingSkips(
                      rest,
                      [acc EXCEPT !.posts = Append(@, post), !.fetched = @ + 1],
                      cfg, index)

\* fetch_posts: the for loop over one page's children; acc holds posts, fetched
\* and stats['skipped']
RECURSIVE ProcessChildren(_, _, _, _)
ProcessChildren(children, acc, cfg, index) ==
    IF children = <<>> \/ acc.fetched >= cfg.limit THEN acc
    ELSE LET post == _parse_post(Head(children), cfg)
             rest == Tail(children)
         IN  IF post = NonePost THEN ProcessChildren(rest, acc, cfg, index)
             ELSE IF post.id \in index
                  THEN ProcessChildren(rest, [acc EXCEPT !.skipped = @ + 1], cfg, index)
             ELSE ProcessChildren(
                      rest,
                      [acc EXCEPT !.posts = Append(@, post), !.fetched = @ + 1],
                      cfg, index)

\* fetch_posts leaves its loop and returns ps; run() hands them to download_all, which
\* returns at once for an empty list and submits one future per post otherwise
EndFetch(ps, skipped) ==
    /\ stats' = [stats EXCEPT !.found = Len(ps), !.skipped = skipped]
    /\ task' = [i \in 1..Len(ps) |-> "queued"]
    /\ url' = NoneUrl
    /\ pc' = IF ps = <<>> THEN "summary" ELSE "download"

\* run() enters fetch_posts, which tests its loop condition for the first time and
\* builds the URL of the first request
Start ==
    /\ pc = "start"
    /\ IF fetched < config.limit
       THEN /\ pc' = "fetch"
            /\ url' = _build_url(config, after)
            /\ UNCHANGED <<stats, task>>
       ELSE EndFetch(posts, stats.skipped)
    /\ UNCHANGED <<config, disk, disk0, downloaded, failed, posts, after, fetched, depth,
                   resp, served, opened, counted, parseVars>>

\* _make_request on HTTP 429 with the answer of its retry dropped: it returns None
RateLimitedGivesUp ==
    /\ pc = "fetch"
    /\ depth < Max429
    /\ depth' = depth + 1
    /\ resp' = "429"
    /\ EndFetch(posts, stats.skipped)
    /\ UNCHANGED <<config, disk, disk0, downloaded, failed, posts, after, fetched, served,
                   opened, counted, parseVars>>

\* _make_request gets HTTP 429: it sleeps and calls itself with the same URL
RateLimited ==
    /\ pc = "fetch"
    /\ depth < Max429
    /\ depth' = depth + 1
    /\ resp' = "429"
    /\ UNCHANGED <<pc, config, disk, disk0, downloaded, failed, stats, posts, after,
                   fetched, served, url, poolVars, parseVars>>

\* _make_request returns None (an HTTP status other than 429, a URL or timeout error,
\* a body that is not JSON) or a falsy JSON value: fetch_posts breaks out of its loop
RequestFailed ==
    /\ pc = "fetch"
    /\ resp' = "no_data"
    /\ depth' = 0
    /\ EndFetch(posts, stats.skipped)
    /\ UNCHANGED <<config, disk, disk0, downloaded, failed, posts, after, fetched, served,
                   opened, counted, parseVars>>

\* _make_request returns a JSON value that is truthy and not of the listing's shape (a
\* list, or an object whose 'data' is not an object): data.get raises in fetch_posts,
\* which nothing up to main() catches
BadShape ==
    /\ pc = "fetch"
    /\ resp' = "bad_shape"
    /\ depth' = 0
    /\ pc' = "crashed"
    /\ url' = NoneUrl
    /\ UNCHANGED <<config, disk, disk0, downloaded, failed, stats, posts, after, fetched,
                   served, poolVars, parseVars>>

\* _make_request returns a listing page: the children that follow the cursor in the
\* listing and, when has_after, a cursor to what follows them.  The rest of the loop
\* body of fetch_posts, up to the URL of the next request
PageReceived(children, has_after) ==
    /\ pc = "fetch"
    /\ children \in Children(MaxEntries - Len(served))
    /\ resp' = "page"
    /\ depth' = 0
    /\ served' = served \o children
    /\ IF children = <<>>
       THEN /\ EndFetch(posts, stats.skipped)
            /\ UNCHANGED <<posts, after, fetched>>
       ELSE LET acc == ProcessChildren(
                           children,
                           [posts |-> posts, fetched |-> fetched, skipped |-> stats.skipped],
                           config, downloaded)
            IN  /\ posts' = acc.posts
                /\ fetched' = acc.fetched
                /\ after' = IF has_after THEN Len(served') ELSE 0
                /\ IF after' # 0 /\ acc.fetched < config.limit
                   THEN /\ pc' = "fetch"
                        /\ url' = _build_url(config, after')
                        /\ stats' = [stats EXCEPT !.skipped = acc.skipped]
                        /\ UNCHANGED task
                   ELSE EndFetch(acc.posts, acc.skipped)
    /\ UNCHANGED <<config, disk, disk0, downloaded, failed, opened, counted, parseVars>>

(***************************************************************************)
(* run(): the download phase, download_all and _download_image             *)
(***************************************************************************)

filepath(i) == filename(posts[i])

\* the futures a worker thread is running
Running == {i \in DOMAIN task : task[i] \in {"requesting", "reading"}}

\* a pool that starts a thread for every future, whatever max_workers is
TaskBeginUnbounded(i) ==
    /\ pc = "download"
    /\ i \in DOMAIN task
    /\ task[i] = "queued"
    /\ \A j \in 1..(i - 1) : task[j] # "queued"
    /\ task' = [task EXCEPT ![i] = IF filepath(i) \in disk THEN "true" ELSE "requesting"]
    /\ UNCHANGED <<pc, config, disk, disk0, downloaded, failed, stats, fetchVars, opened,
                   counted, parseVars>>

\* a free worker takes the next future of the executor's queue and runs
\* _download_image up to its request: it returns True when the target file exists
TaskBegin(i) ==
    /\ pc = "download"
    /\ i \in DOMAIN task
    /\ task[i] = "queued"
    /\ \A j \in 1..(i - 1) : task[j] # "queued"
    /\ Cardinality(Running) < config.max_workers
    /\ task' = [task EXCEPT ![i] = IF filepath(i) \in disk THEN "true" ELSE "requesting"]
    /\ UNCHANGED <<pc, config, disk, disk0, downloaded, failed, stats, fetchVars, opened,
                   counted, parseVars>>

\* urlopen raises (a network error, a non-2xx status): _download_image returns False
TaskNetworkError(i) ==
    /\ pc = "download"
    /\ i \in DOMAIN task
    /\ task[i] = "requesting"
    /\ task' = [task EXCEPT ![i] = "false"]
    /\ UNCHANGED <<pc, config, disk, disk0, downloaded, failed, stats, fetchVars, opened,
                   counted, parseVars>>

\* the response's Content-Type does not start with image/: False
TaskNotImage(i) ==
    /\ pc = "download"
    /\ i \in DOMAIN task
    /\ task[i] = "requesting"
    /\ task' = [task EXCEPT ![i] = "false"]
    /\ UNCHANGED <<pc, config, disk, disk0, downloaded, failed, stats, fetchVars, opened,
                   counted, parseVars>>

\* the response is an image: open(filepath, 'wb') creates the target file
TaskOpen(i) ==
    /\ pc = "download"
    /\ i \in DOMAIN task
    /\ task[i] = "requesting"
    /\ task' = [task EXCEPT ![i] = "reading"]
    /\ disk' = disk \cup {filepath(i)}
    /\ opened' = opened \cup {i}
    /\ UNCHANGED <<pc, config, disk0, downloaded, failed, stats, fetchVars, counted,
                   parseVars>>

\* response.read() returns the body, which is written: True
TaskWritten(i) ==
    /\ pc = "download"
    /\ i \in DOMAIN task
    /\ task[i] = "reading"
    /\ task' = [task EXCEPT ![i] = "true"]
    /\ UNCHANGED <<pc, config, disk, disk0, downloaded, failed, stats, fetchVars, opened,
                   counted, parseVars>>

\* response.read() raises (a timeout, a reset, an incomplete read): False
TaskReadError(i) ==
    /\ pc = "download"
    /\ i \in DOMAIN task
    /\ task[i] = "reading"
    /\ task' = [task EXCEPT ![i] = "false"]
    /\ UNCHANGED <<pc, config, disk, disk0, downloaded, failed, stats, fetchVars, opened,
                   counted, parseVars>>

\* the outcome counted from a stale read of the counter: an update of another
\* completion made in between is lost
CollectLosingUpdates(i) ==
    /\ pc = "download"
    /\ i \in DOMAIN task
    /\ i \notin counted
    /\ task[i] \in {"true", "false"}
    /\ counted' = counted \cup {i}
    /\ IF task[i] = "true"
       THEN /\ stats' = [stats EXCEPT !.downloaded = 1]
            /\ downloaded' = downloaded \cup {posts[i].id}
            /\ UNCHANGED failed
       ELSE /\ stats' = [stats EXCEPT !.failed = 1]
            /\ failed' = failed \cup {posts[i].id}
            /\ UNCHANGED downloaded
    /\ pc' = IF counted' = DOMAIN task THEN "summary" ELSE "download"
    /\ UNCHANGED <<config, disk, disk0, fetchVars, task, opened, parseVars>>

\* the as_completed loop giving up at the first failure
CollectUntilFailure(i) ==
    /\ pc = "download"
    /\ i \in DOMAIN task
    /\ i \notin counted
    /\ task[i] \in {"true", "false"}
    /\ counted' = counted \cup {i}
    /\ IF task[i] = "true"
       THEN /\ stats' = [stats EXCEPT !.downloaded = @ + 1]
            /\ downloaded' = downloaded \cup {posts[i].id}
            /\ UNCHANGED failed
       ELSE /\ stats' = [stats EXCEPT !.failed = @ + 1]
            /\ failed' = failed \cup {posts[i].id}
            /\ UNCHANGED downloaded
    /\ pc' = IF counted' = DOMAIN task \/ task[i] = "false" THEN "summary" ELSE "download"
    /\ UNCHANGED <<config, disk, disk0, fetchVars, task, opened, parseVars>>

\* download_all: one turn of the as_completed loop, for a future that is done; after
\* the last one download_all returns and run() prints the summary
Collect(i) ==
    /\ pc = "download"
    /\ i \in DOMAIN task
    /\ i \notin counted
    /\ task[i] \in {"true", "false"}
    /\ counted' = counted \cup {i}
    /\ IF task[i] = "true"
       THEN /\ stats' = [stats EXCEPT !.downloaded = @ + 1]
            /\ downloaded' = downloaded \cup {posts[i].id}
            /\ UNCHANGED failed
       ELSE /\ stats' = [stats EXCEPT !.failed = @ + 1]
            /\ failed' = failed \cup {posts[i].id}
            /\ UNCHANGED downloaded
    /\ pc' = IF counted' = DOMAIN task THEN "summary" ELSE "download"
    /\ UNCHANGED <<config, disk, disk0, fetchVars, task, opened, parseVars>>

Next ==
    \/ Start
    \/ RateLimited
    \/ RequestFailed
    \/ BadShape
    \/ \E children \in Children(MaxEntries), has_after \in BOOLEAN :
           PageReceived(children, has_after)
    \/ \E i \in 1..MaxLimit : TaskBegin(i)
    \/ \E i \in 1..MaxLimit : TaskNetworkError(i)
    \/ \E i \in 1..MaxLimit : TaskNotImage(i)
    \/ \E i \in 1..MaxLimit : TaskOpen(i)
    \/ \E i \in 1..MaxLimit : TaskWritten(i)
    \/ \E i \in 1..MaxLimit : TaskReadError(i)
    \/ \E i \in 1..MaxLimit : Collect(i)

Spec == Init /\ [][Next]_vars

(***************************************************************************)
(* RedditScraper.__init__ on an arbitrary output directory                 *)
(***************************************************************************)

\* a file name of the output directory has at most this many characters
MaxNameLen == 3

\* the output directory holds at most this many files
MaxFiles == 2

NameChars == {"a", "_", "."}

\* the names a file can have: "." and ".." are no files
FileNames ==
    UNION {[1..n -> NameChars] : n \in 1..MaxNameLen} \ {<<".">>, <<".", ".">>}

InitSeed ==
    /\ pc = "init"
    /\ config \in {[DefaultConfig EXCEPT !.skip_existing = b] : b \in BOOLEAN}
    /\ disk = {}
    /\ disk0 = {}
    /\ downloaded = {}
    /\ failed = {}
    /\ stats = NewStats
    /\ posts = <<>>
    /\ after = 0
    /\ fetched = 0
    /\ depth = 0
    /\ resp = "none"
    /\ served = <<>>
    /\ url = NoneUrl
    /\ task = <<>>
    /\ opened = {}
    /\ counted = {}
    /\ entry = EntryA
    /\ parsed = NonePost
    /\ image_url = None

\* before the process starts, a file is put into the output directory
PutFile(name) ==
    /\ pc = "init"
    /\ name \notin disk
    /\ Cardinality(disk) < MaxFiles
    /\ disk' = disk \cup {name}
    /\ disk0' = disk'
    /\ UNCHANGED <<pc, config, downloaded, failed, stats, fetchVars, poolVars, parseVars>>

\* RedditScraper.__init__: the index is seeded from the directory when skip_existing
Construct ==
    /\ pc = "init"
    /\ downloaded' = SeedIndex(config, disk)
    /\ pc' = "start"
    /\ UNCHANGED <<config, disk, disk0, failed, stats, fetchVars, poolVars, parseVars>>

NextSeed ==
    \/ \E name \in FileNames : PutFile(name)
    \/ Construct

SpecSeed == InitSeed /\ [][NextSeed]_vars

(***************************************************************************)
(* _parse_post on an arbitrary entry                                       *)
(***************************************************************************)

Flags == {"absent", "true", "false"}

M_IMGUR_PAGE == HTTPS \o <<"m", ".">> \o IMGUR_COM \o <<"/", "x">>
OTHER_PAGE   == HTTPS \o <<"x", ".", "i", "o", "/", "p">>
PREVIEW_URL  ==
    HTTPS \o <<"p", "r", "e", "v", "i", "e", "w", ".">> \o REDD_IT
          \o <<"/", "x", "?", "a", "=", "1">> \o AMP_ENTITY \o <<"b", "=", "2">>

ParseEntries ==
    [id          : {<<"a">>},
     title       : {<<"t">>},
     is_self     : Flags,
     is_video    : Flags,
     over_18     : Flags,
     url         : {EntryA.url, M_IMGUR_PAGE, OTHER_PAGE, <<>>},
     is_gallery  : BOOLEAN,
     media       : {"none", "no_u"},
     media_u     : {<<>>},
     preview     : {"none", "source"},
     preview_url : {PREVIEW_URL},
     width       : {0, 1, 3},
     height      : {0, 1},
     has_score   : BOOLEAN,
     score       : {1, 3}]

ParseConfigs ==
    [limit         : {1},
     skip_existing : {TRUE},
     include_nsfw  : BOOLEAN,
     min_score     : {0, 2},
     min_width     : {0, 2},
     min_height    : {0, 2},
     max_workers   : {1}]

InitParse ==
    /\ pc = "parse"
    /\ config \in ParseConfigs
    /\ entry \in ParseEntries
    /\ parsed = NonePost
    /\ image_url = None
    /\ disk = {}
    /\ disk0 = {}
    /\ downloaded = {}
    /\ failed = {}
    /\ stats = NewStats
    /\ posts = <<>>
    /\ after = 0
    /\ fetched = 0
    /\ depth = 0
    /\ resp = "none"
    /\ served = <<>>
    /\ url = NoneUrl
    /\ task = <<>>
    /\ opened = {}
    /\ counted = {}

\* fetch_posts calls self._parse_post(child)
ParsePost ==
    /\ pc = "parse"
    /\ parsed' = _parse_post(entry, config)
    /\ pc' = "parsed"
    /\ image_url' = _extract_image_url(entry)
    /\ UNCHANGED <<config, disk, disk0, downloaded, failed, stats, fetchVars, poolVars,
                   entry>>

SpecParse == InitParse /\ [][ParsePost]_vars

(***************************************************************************)
(* RedditScraper.__init__ on a directory of files that earlier runs wrote  *)
(***************************************************************************)

\* a title of TITLE_MAX + 1 characters with a space at position TITLE_MAX
LONG_TITLE == [i \in 1..(TITLE_MAX + 1) |-> IF i = TITLE_MAX THEN " " ELSE "x"]

\* the posts of earlier runs: identifiers without '_', with and without a '.'
NamePosts ==
    [id      : {<<"a">>, <<"a", ".", "b">>, <<>>},
     title   : {<<>>, <<" ", "x", ":", " ">>, <<"a", "_", "b", ".", "c">>, LONG_TITLE},
     url     : {EntryA.url, OTHER_PAGE},
     score   : {1},
     is_nsfw : {FALSE},
     width   : {0},
     height  : {0}]

NextName ==
    \/ \E post \in NamePosts : PutFile(filename(post))
    \/ Construct

SpecName == InitSeed /\ [][NextName]_vars

(***************************************************************************)
(* _parse_post on entries of every link shape, under the default policy    *)
(***************************************************************************)

IMGUR_ALBUM     == HTTPS \o IMGUR_COM \o <<"/", "a", "/", "x">>
M_IMGUR_ALBUM   == HTTPS \o <<"m", ".">> \o IMGUR_COM \o <<"/", "a", "/", "x">>
M_IMGUR_GALLERY ==
    HTTPS \o <<"m", ".">> \o IMGUR_COM \o <<"/", "g", "a", "l", "l", "e", "r", "y", "/", "x">>
UPPER_EXT_PAGE  == HTTPS \o <<"x", ".", "i", "o", "/", "p", ".", "P", "N", "G">>
MENTIONS_IMGUR  == HTTPS \o <<"x", ".", "i", "o", "/">> \o IMGUR_COM \o <<"/", "x">>
GALLERY_URL     ==
    HTTPS \o <<"p", "r", "e", "v", "i", "e", "w", ".">> \o REDD_IT
          \o <<"/", "g", "?", "a", "=", "1">> \o AMP_ENTITY \o <<"b", "=", "2">>

ResolveEntries ==
    [id          : {<<"a">>},
     title       : {<<"t">>},
     is_self     : {"false"},
     is_video    : {"false"},
     over_18     : {"false"},
     url         : {EntryA.url, UPPER_EXT_PAGE, IMGUR_ALBUM, M_IMGUR_PAGE, M_IMGUR_ALBUM,
                    M_IMGUR_GALLERY, OTHER_PAGE, MENTIONS_IMGUR, <<>>},
     is_gallery  : BOOLEAN,
     media       : {"none", "u", "no_u"},
     media_u     : {GALLERY_URL},
     preview     : {"none", "source"},
     preview_url : {PREVIEW_URL, <<>>},
     width       : {0},
     height      : {0},
     has_score   : {TRUE},
     score       : {1}]

InitResolve ==
    /\ pc = "parse"
    /\ config = DefaultConfig
    /\ entry \in ResolveEntries
    /\ parsed = NonePost
    /\ image_url = None
    /\ disk = {}
    /\ disk0 = {}
    /\ downloaded = {}
    /\ failed = {}
    /\ stats = NewStats
    /\ posts = <<>>
    /\ after = 0
    /\ fetched = 0
    /\ depth = 0
    /\ resp = "none"
    /\ served = <<>>
    /\ url = NoneUrl
    /\ task = <<>>
    /\ opened = {}
    /\ counted = {}

SpecResolve == InitResolve /\ [][ParsePost]_vars

(***************************************************************************)
(* fetch_posts at the head of its loop, for an arbitrary limit             *)
(***************************************************************************)

\* config.limit ranges over 0..MaxUrlLimit here
MaxUrlLimit == 101

\* the pages received when the loop head is reached again: n_other entries that are no
\* candidates, then n_kept times the post of EntryA
ServedSoFar(n_other, n_kept) ==
    [i \in 1..(n_other + n_kept) |-> IF i <= n_other THEN SelfEntry ELSE EntryA]

InitUrl ==
    /\ pc = "loop"
    /\ \E l \in 0..MaxUrlLimit, k \in 0..MaxEntries, j \in 0..1 :
           /\ k <= l
           /\ config = [DefaultConfig EXCEPT !.limit = l]
           /\ served = ServedSoFar(j, k)
           /\ posts = [i \in 1..k |-> _parse_post(EntryA, config)]
           /\ fetched = k
           /\ after = j + k
    /\ resp = IF served = <<>> THEN "none" ELSE "page"
    /\ url = IF served = <<>> THEN NoneUrl ELSE _build_url(config, 0)
    /\ disk = {}
    /\ disk0 = {}
    /\ downloaded = {}
    /\ failed = {}
    /\ stats = NewStats
    /\ depth = 0
    /\ task = <<>>
    /\ opened = {}
    /\ counted = {}
    /\ entry = EntryA
    /\ parsed = NonePost
    /\ image_url = None

\* fetch_posts tests `fetched < self.config.limit` and builds the URL of the next request
LoopTest ==
    /\ pc = "loop"
    /\ IF fetched < config.limit
       THEN /\ pc' = "fetch"
            /\ url' = _build_url(config, after)
            /\ UNCHANGED <<stats, task>>
       ELSE EndFetch(posts, stats.skipped)
    /\ UNCHANGED <<config, disk, disk0, downloaded, failed, posts, after, fetched, depth,
                   resp, served, opened, counted, parseVars>>

SpecUrl == InitUrl /\ [][LoopTest]_vars

(***************************************************************************)
(* Properties                                                              *)
(***************************************************************************)

\* self.downloaded as __init__ left it
Index0 == SeedIndex(config, disk0)

\* what _parse_post makes of the entry e
CandidateOf(e) == _parse_post(e, config)

\* the entry passes the resolver and the filter, and its identifier is not in the index
Qualifies(e) ==
    LET post == CandidateOf(e)
    IN  post # NonePost /\ post.id \notin Index0

\* the entry passes the resolver and the filter, and its identifier is in the index
IsKnown(e) ==
    LET post == CandidateOf(e)
    IN  post # NonePost /\ post.id \in Index0

\* the candidates of the first n entries of s that qualify
RECURSIVE FirstQualifying(_, _)
FirstQualifying(s, n) ==
    IF s = <<>> \/ n <= 0 THEN <<>>
    ELSE IF Qualifies(Head(s))
         THEN <<CandidateOf(Head(s))>> \o FirstQualifying(Tail(s), n - 1)
         ELSE FirstQualifying(Tail(s), n)

\* C1: a listing request answered with 429 is retried at most once: once a URL has been
\* answered with 429 twice in a row, the listing fetch is over and no third request for
\* that URL is under way.
C1_SecondRateLimitEndsFetch == depth >= 2 => pc # "fetch"

\* C2: whatever the upstream answers, run() reaches print_summary: no error ends the
\* process before the summary, so run() has a next step wherever it has not printed it.
C2_ReachesSummary == pc = "summary" \/ ENABLED Next

\* C3: fetch_posts returns exactly the first min(L, Q) qualifying entries that are not
\* already downloaded, in listing order, and a page is followed by another request
\* exactly when fewer than L candidates are kept and the page had entries and a cursor.
C3_FetchReturnsFirstQualifying ==
    /\ [](posts = FirstQualifying(served, config.limit))
    /\ [][(pc = "fetch" /\ resp' = "page")
            => ((pc' = "fetch")
                  <=> (/\ Len(posts') < config.limit
                       /\ served' # served
                       /\ after' # 0))]_vars

\* C3 witness: the fetch ended on the limit, on the second page, with a cursor for a
\* third page in hand and an entry of the listing left out
C3_Witness ==
    /\ pc = "download"
    /\ resp = "page"
    /\ Len(posts) = 2
    /\ config.limit = 2
    /\ Len(served) = 3
    /\ after = 3
    /\ \E i \in 1..2 : ~Qualifies(served[i])

\* the futures of the other posts that have the same target file as post i
Siblings(i) == {j \in DOMAIN task : j # i /\ filepath(j) = filepath(i)}

\* C4: after a download attempt that failed, no file is at the candidate's target path
\* unless it was there before the run or another task of the same target put it there.
C4_FailedAttemptLeavesNoFile ==
    \A i \in DOMAIN task :
        (task[i] = "false" /\ filepath(i) \in disk)
            => (filepath(i) \in disk0 \/ Siblings(i) \cap opened # {})

\* the futures whose download failed
Failures == {i \in DOMAIN task : task[i] = "false"}

\* C5: failures are isolated per candidate: when the run ends, every candidate whose
\* download did not fail was attempted and has its file, stats.failed is the number of
\* failures and stats.downloaded the number of the other scheduled candidates.
C5_FailuresIsolated ==
    pc = "summary" =>
        /\ \A i \in DOMAIN task : task[i] \in {"true", "false"}
        /\ \A i \in DOMAIN task \ Failures : filepath(i) \in disk
        /\ stats.failed = Cardinality(Failures)
        /\ stats.downloaded = Len(posts) - Cardinality(Failures)

\* C5 witness: the first download failed, the second one wrote its file afterwards
C5_Witness ==
    /\ pc = "summary"
    /\ Len(posts) = 2
    /\ Failures = {1}
    /\ 2 \in opened
    /\ filepath(2) # filepath(1)
    /\ stats.failed = 1

\* C6: a listing request that fails with a non-429 status, a connection error or a body
\* that is not JSON or not of the expected shape ends the listing fetch without raising:
\* fetch_posts returns the candidates kept so far and stats.found is their count.
C6_FailedRequestEndsFetch ==
    [][(pc = "fetch" /\ resp' \in {"no_data", "bad_shape"})
          => (/\ pc' \in {"download", "summary"}
              /\ posts' = posts
              /\ stats'.found = Len(posts))]_vars

\* the number of known entries of s that come before its n-th qualifying entry
RECURSIVE KnownBeforeNth(_, _)
KnownBeforeNth(s, n) ==
    IF s = <<>> \/ n <= 0 THEN 0
    ELSE IF Qualifies(Head(s)) THEN KnownBeforeNth(Tail(s), n - 1)
    ELSE (IF IsKnown(Head(s)) THEN 1 ELSE 0) + KnownBeforeNth(Tail(s), n)

\* C7: with skip_existing, no candidate whose identifier is in the index seeded from the
\* output directory is in the work list or handed to a download task; each such entry
\* adds one to stats.skipped and does not count towards the limit.
C7_SeededIdsNeverScheduled ==
    config.skip_existing =>
        /\ \A i \in 1..Len(posts) : posts[i].id \notin _load_existing_files(disk0)
        /\ stats.skipped = KnownBeforeNth(served, config.limit)
        /\ fetched = Len(posts)
        /\ fetched <= config.limit

\* C7 witness: an entry was skipped and the candidates after it still filled the limit
C7_Witness ==
    /\ config.skip_existing
    /\ pc = "download"
    /\ stats.skipped = 1
    /\ config.limit = 2
    /\ Len(posts) = 2
    /\ IsKnown(served[1])

\* C8: with skip_existing off, a candidate whose target file is already on disk is
\* transferred again and its file rewritten.
C8_NoSkipDownloadsAgain ==
    ~config.skip_existing =>
        \A i \in DOMAIN task :
            (task[i] = "true" /\ filepath(i) \in disk0) => i \in opened

\* id is what precedes the first '_' of the string s (all of s when it has none)
IsPrefixBeforeSeparator(id, s) ==
    /\ ~Contains(id, <<"_">>)
    /\ \/ s = id
       \/ StartsWith(s, id \o <<"_">>)

\* C9: after the index is seeded from a directory, it holds exactly the distinct
\* prefixes that the file names have before their first '_' separator.
C9_IndexHoldsNamePrefixes ==
    (pc = "start" /\ config.skip_existing /\ \A f \in disk : Contains(f, <<"_">>)) =>
        /\ \A f \in disk : \E id \in downloaded : IsPrefixBeforeSeparator(id, f)
        /\ \A id \in downloaded : \E f \in disk : IsPrefixBeforeSeparator(id, f)

\* C9, amended: after the index is seeded from a directory, it holds exactly the
\* distinct prefixes that the files' stems (the name without its last extension) have
\* before their first '_': each of them is a member and nothing else is.
C9_IndexHoldsStemPrefixes ==
    (pc = "start" /\ config.skip_existing) =>
        /\ \A f \in disk : \E id \in downloaded : IsPrefixBeforeSeparator(id, Stem(f))
        /\ \A id \in downloaded : \E f \in disk : IsPrefixBeforeSeparator(id, Stem(f))

\* C9 witness: two files with one identifier between them, one of which has an
\* extension after the separator
C9_Witness ==
    /\ pc = "start"
    /\ config.skip_existing
    /\ Cardinality(disk) = 2
    /\ downloaded = {<<"a">>}
    /\ <<"a", "_", ".">> \notin disk
    /\ \E f \in disk : Stem(f) # f /\ Contains(f, <<"_">>)

\* the width or height the filter knows for the entry: 0 when it has no preview source
KnownDim(e, dim) == IF e.preview = "source" THEN dim ELSE 0

\* the score the filter reads: 0 when the entry has none
ScoreOf(e) == IF e.has_score THEN e.score ELSE 0

\* C10: _parse_post yields a candidate exactly when is_self and is_video are present and
\* false, over_18 is present and false or sensitive content is opted in, the resolved
\* URL is not empty, the score is at least min_score, and the known width and height
\* are 0 or at least min_width and min_height.
C10_ParseAcceptsExactly ==
    pc = "parsed" =>
        ((parsed # NonePost) <=>
            /\ entry.is_self = "false"
            /\ entry.is_video = "false"
            /\ (entry.over_18 = "false" \/ config.include_nsfw)
            /\ _extract_image_url(entry) \notin {None, <<>>}
            /\ ScoreOf(entry) >= config.min_score
            /\ (KnownDim(entry, entry.width) = 0
                  \/ KnownDim(entry, entry.width) >= config.min_width)
            /\ (KnownDim(entry, entry.height) = 0
                  \/ KnownDim(entry, entry.height) >= config.min_height))

\* C10 witness: an entry without over_18 is a candidate because sensitive content is
\* opted in, with a known width that is at least the minimum
C10_Witness ==
    /\ pc = "parsed"
    /\ parsed # NonePost
    /\ entry.over_18 = "absent"
    /\ config.include_nsfw
    /\ config.min_width = 2
    /\ parsed.width = 3
    /\ config.min_score = 2

\* C11: every candidate has a non-empty asset URL, the one the resolver produced for its
\* entry; an entry that is a self-post or a video post, or for which the resolver has no
\* URL, never becomes a candidate.
C11_CandidateHasResolvedUrl ==
    pc = "parsed" =>
        /\ parsed # NonePost =>
              /\ parsed.url = image_url
              /\ parsed.url # None
              /\ Len(parsed.url) > 0
        /\ (\/ entry.is_self = "true"
            \/ entry.is_video = "true"
            \/ image_url \in {None, <<>>}) => parsed = NonePost

\* C11 witness: a candidate whose URL the resolver made from a page link, next to which
\* the model has entries the resolver gives None and the empty URL for
C11_Witness ==
    /\ pc = "parsed"
    /\ parsed # NonePost
    /\ entry.url = M_IMGUR_PAGE
    /\ entry.preview = "none"
    /\ parsed.url = M_IMGUR_PAGE \o EXT_JPG
    /\ _extract_image_url([entry EXCEPT !.url = OTHER_PAGE]) = None
    /\ _extract_image_url([entry EXCEPT !.is_gallery = TRUE, !.media = "no_u"]) = <<>>

\* C12: a listing request answered with 429 is made again with the same URL and with
\* nothing of the fetch changed, and a page that answers the retry is processed as any
\* page is: the work list is the first qualifying entries of all pages received, the
\* skipped count is that of the known entries among them, and the next request carries
\* the cursor of that page.
C12_RetryYieldsThePage ==
    /\ [][(depth' = depth + 1)
            => (/\ pc' = "fetch"
                /\ url' = url
                /\ UNCHANGED <<config, posts, after, fetched, served, stats, downloaded,
                               task>>)]_vars
    /\ [][(pc = "fetch" /\ depth = 1 /\ resp' = "page")
            => (/\ posts' = FirstQualifying(served', config.limit)
                /\ stats'.skipped = KnownBeforeNth(served', config.limit)
                /\ after' \in (IF served' = served THEN {after} ELSE {0, Len(served')})
                /\ pc' = "fetch" => url' = _build_url(config, Len(served')))]_vars

\* C12 witness: the request for the second page has been answered with 429 once and is
\* made again; the page that answers it gives the second candidate and ends the fetch
C12_Witness ==
    /\ pc = "fetch"
    /\ resp = "429"
    /\ depth = 1
    /\ config.limit = 2
    /\ served = <<EntryA>>
    /\ Len(posts) = 1
    /\ url.after = 1
    /\ ENABLED (/\ PageReceived(<<EntryB>>, TRUE)
                /\ Len(posts') = 2
                /\ after' = 2
                /\ pc' = "download")

\* the values min_score is compared over
MaxScore == 4

\* _parse_post accepts the entry under the policy of the run with min_score set to m
AcceptedWith(m) == _parse_post(entry, [config EXCEPT !.min_score = m]) # NonePost

\* C13: acceptance is monotonic in min_score: an entry accepted under a min_score is
\* accepted under every lower one, an entry rejected under a min_score is rejected under
\* every higher one, and no entry is accepted under a min_score above its score.
C13_MonotonicInMinScore ==
    pc = "parsed" =>
        \A m \in 0..MaxScore :
            /\ (parsed # NonePost /\ m <= config.min_score) => AcceptedWith(m)
            /\ (parsed = NonePost /\ m >= config.min_score) => ~AcceptedWith(m)
            /\ m > ScoreOf(entry) => ~AcceptedWith(m)

\* C13 witness: an entry of score 3 accepted under min_score 2 is accepted under 0 and
\* rejected under 4
C13_Witness ==
    /\ pc = "parsed"
    /\ parsed # NonePost
    /\ config.min_score = 2
    /\ ScoreOf(entry) = 3
    /\ AcceptedWith(0)
    /\ ~AcceptedWith(MaxScore)

\* C14: every listing request asks for min(100, remaining) entries, remaining being the
\* limit minus the number of candidates kept when the request is built.
C14_RequestAsksForRemaining ==
    pc = "fetch" => url.limit = Min(PAGE_MAX, config.limit - Len(posts))

\* C14, amended: every listing request asks for min(100, limit) entries, whatever the
\* number of candidates kept when it is built: never for more than 100, and for the whole
\* limit when that is at most 100.
C14_RequestAsksForLimit ==
    pc = "fetch" =>
        /\ url.limit <= PAGE_MAX
        /\ url.limit <= config.limit
        /\ url.limit < config.limit => url.limit = PAGE_MAX
        /\ url.after = after

\* C14 witness: with two candidates kept, the request of a run whose limit is above 100
\* asks for 100 entries
C14_Witness ==
    /\ pc = "fetch"
    /\ Len(posts) = 2
    /\ config.limit = PAGE_MAX + 1
    /\ url.limit = PAGE_MAX
    /\ url.after = 2

\* the host of the entry's link is in the allow-list or its path ends in an image extension
IsDirectImage(e) ==
    /\ e.url # <<>>
    /\ \/ UrlParse(e.url).netloc \in IMAGE_DOMAINS
       \/ \E ext \in IMAGE_EXTENSIONS : EndsWith(Lower(UrlParse(e.url).path), ext)

\* the entry is a gallery whose first item has a source rendition
IsGalleryEntry(e) == e.is_gallery /\ e.media # "none"

\* the URL of that rendition, the empty string when it has none
GallerySource(e) == IF e.media = "u" THEN e.media_u ELSE <<>>

\* the entry has a preview image with a source URL
HasPreviewImage(e) == e.preview = "source" /\ e.preview_url # <<>>

\* the link's host is the image-sharing service or one of its subdomains
OnSharingService(link) ==
    LET host == UrlParse(link).netloc
    IN  host = IMGUR_COM \/ EndsWith(host, <<".">> \o IMGUR_COM)

\* the link is an album or gallery link
IsAlbumLink(link) ==
    \/ Contains(UrlParse(link).path, <<"/", "a", "/">>)
    \/ Contains(UrlParse(link).path, <<"/", "g", "a", "l", "l", "e", "r", "y", "/">>)

\* what the five strategies, tried in their order, give for the entry
FirstApplicable(e) ==
    IF IsDirectImage(e) THEN e.url
    ELSE IF IsGalleryEntry(e) THEN ReplaceAmp(GallerySource(e))
    ELSE IF HasPreviewImage(e) THEN ReplaceAmp(e.preview_url)
    ELSE IF OnSharingService(e.url) /\ ~IsAlbumLink(e.url) THEN e.url \o EXT_JPG
    ELSE None

\* C15: the resolver applies its strategies in a fixed order and the first applicable one
\* decides: a direct image URL as it is, else the gallery's first source URL unescaped,
\* else the preview's source URL unescaped, else a non-album link on the image-sharing
\* service with '.jpg' appended, else no URL.
C15_FirstApplicableStrategyDecides ==
    pc = "parsed" => image_url = FirstApplicable(entry)

\* C16: no outcome is lost or counted twice: at every moment the two counters count the
\* completions handled so far, and when download_all has returned every scheduled
\* candidate has been counted, stats.downloaded + stats.failed = stats.found, and the
\* index holds the identifier of every candidate that succeeded.
C16_EveryOutcomeCountedOnce ==
    /\ stats.downloaded = Cardinality({i \in counted : task[i] = "true"})
    /\ stats.failed = Cardinality({i \in counted : task[i] = "false"})
    /\ pc = "summary" =>
          /\ counted = DOMAIN task
          /\ stats.downloaded + stats.failed = stats.found
          /\ \A i \in DOMAIN task : task[i] = "true" => posts[i].id \in downloaded

\* C16 witness: two workers, two candidates with different targets, both transferred
\* and both counted
C16_Witness ==
    /\ pc = "summary"
    /\ config.max_workers = 2
    /\ opened = {1, 2}
    /\ posts[1].id # posts[2].id
    /\ stats.downloaded = 2
    /\ stats.found = 2

\* C17: of two work-list entries with the same derived filename, at most one performs a
\* transfer and writes the target file, under every interleaving of the worker pool.
C17_OneTransferPerTarget ==
    \A i \in DOMAIN task : Siblings(i) \cap opened # {} => i \notin opened

\* C18: at every moment of the download phase at most max_workers download tasks are in
\* flight, and there is exactly one task for each candidate of the work list: it is
\* queued until it runs, runs once, and is done when download_all returns.
C18_AtMostMaxWorkersInFlight ==
    /\ Cardinality(Running) <= config.max_workers
    /\ pc \in {"download", "summary"} => DOMAIN task = DOMAIN posts
    /\ \A i \in DOMAIN task : task[i] = "queued" => (i \notin opened /\ i \notin counted)
    /\ pc = "summary" => \A i \in DOMAIN task : task[i] \in {"true", "false"}

\* C18 witness: with one worker, the second candidate's task waits in the queue while
\* the first one's is in flight
C18_Witness ==
    /\ pc = "download"
    /\ config.max_workers = 1
    /\ Len(posts) = 2
    /\ Running = {1}
    /\ task[2] = "queued"

\* C19: the listing fetch is sequential and comes before the download phase: the request
\* under way carries the cursor of the last page received (none for the first request),
\* which is the cursor that follows every entry received so far; while a request is
\* under way no download task exists, and once one exists no request is under way.
C19_FetchPrecedesDownload ==
    /\ pc = "fetch" =>
          /\ url.after = after
          /\ url.after = Len(served)
          /\ task = <<>> /\ opened = {} /\ counted = {}
    /\ task # <<>> => (pc \in {"download", "summary"} /\ url = NoneUrl)

\* C19 witness: the third request of a run, carrying the cursor of the second page, with
\* one candidate kept and no download task yet
C19_Witness ==
    /\ pc = "fetch"
    /\ Len(served) = 2
    /\ url.after = 2
    /\ \E k \in 1..2 : ~Qualifies(served[k])
    /\ Len(posts) = 1
    /\ config.limit = 2
    /\ task = <<>>

\* the posts whose file is in the output directory
Written == {post \in NamePosts : filename(post) \in disk}

\* C20: naming and identifier recovery round-trip: for identifiers without '_', seeding
\* the index from a directory that holds a candidate's file puts exactly the candidate's
\* identifier into the index for it, so the index is the set of the identifiers of the
\* files' candidates, and two candidates with distinct identifiers never recover to the
\* same one.  (filename reads the identifier, the title and the URL and nothing else, so
\* it is the same on every call.)
C20_NamesRecoverTheirIds ==
    (pc = "start" /\ config.skip_existing) =>
        /\ downloaded = {post.id : post \in Written}
        /\ \A post \in Written : _load_existing_files({filename(post)}) = {post.id}
        /\ \A p, q \in Written :
               p.id # q.id =>
                   _load_existing_files({filename(p)}) # _load_existing_files({filename(q)})

\* C20 witness: two files recovered to their two identifiers, one of an identifier
\* with a '.' in it and one of a title with '_' and '.' in it, one of them of a title
\* that was cut at TITLE_MAX characters and stripped
C20_Witness ==
    /\ pc = "start"
    /\ config.skip_existing
    /\ Cardinality(disk) = 2
    /\ downloaded = {<<"a">>, <<"a", ".", "b">>}
    /\ \E post \in Written : post.id = <<"a">> /\ Contains(post.title, <<"_">>)
    /\ \E post \in Written :
           /\ post.title = LONG_TITLE
           /\ Len(filename(post)) = Len(post.id) + 1 + (TITLE_MAX - 1) + Len(EXT_PNG)

\* the path of the link ends in an image extension
HasImageExtension(link) ==
    \E ext \in IMAGE_EXTENSIONS : EndsWith(Lower(UrlParse(link).path), ext)

\* C21: an album or gallery link on the image-sharing service, without an image
\* extension, of an entry that has neither gallery metadata nor a preview image, is
\* never resolved to an asset URL, whichever host name of the service it uses: the
\* entry is no candidate.
C21_AlbumLinkNeverResolved ==
    (/\ pc = "parsed"
     /\ OnSharingService(entry.url)
     /\ IsAlbumLink(entry.url)
     /\ ~HasImageExtension(entry.url)
     /\ entry.media = "none"
     /\ entry.preview = "none")
        => (image_url = None /\ parsed = NonePost)

====
